---- MODULE Spec2Model ----
(***************************************************************************)
(* Model of src/similarity.py (logohunter): similarity_cutoff,             *)
(* similar_matches, draw_matches and the empty case of                     *)
(* features_from_image.                                                    *)
(*                                                                         *)
(* Numbers.  The program computes in IEEE doubles.  A double is coded by   *)
(* an integer that keeps the order of the doubles that occur: 10*t codes   *)
(* the double nearest to t ten-thousandths (0.7995 is 79950, 1.0 is One =  *)
(* 100000), and 10*t + 1 codes the double one ulp above it.  Similarities  *)
(* handed to the program are doubles nearest to a number of four decimals; *)
(* the doubles one ulp above arise as bin edges k*0.001.  Where double     *)
(* arithmetic departs from decimal arithmetic on these numbers, the        *)
(* departure is tabulated: HighEdges, ShortTies, ProductAbove.             *)
(* Arrays are functions over 0..n-1, as Python indexes them.               *)
(***************************************************************************)
EXTENDS Integers, Sequences, FiniteSets

VARIABLES pc, call, ret, collab

vars == <<pc, call, ret, collab>>

(* ---- bounds of the model ---------------------------------------------- *)

\* Largest number of entries (rows x columns) of the query-by-background
\* similarity matrix, and of rows of either embedding matrix, when every
\* entry is drawn freely.
MaxBgCells == 3

\* Number of embeddings of the large background, which holds two runs of
\* equal embeddings.
LargeBackground == 25

\* Largest number of entries (rows x columns) of the query-by-candidate
\* similarity matrix, of rows of either embedding matrix, of cutoffs, of
\* labels and of boxes.
MaxCandCells == 4

(* ---- program constants, as codes --------------------------------------- *)

\* stop of np.arange(0, 1, 0.001)
One == 100000
\* step of np.arange(0, 1, 0.001)
BinWidth == 100
\* unit of np.round(cos_sim, 3)
RoundUnit == 100

(* ---- double arithmetic --------------------------------------------------- *)

\* The k in 0..1000 for which the double k*0.001 is one ulp above the double
\* nearest to k/1000; for every other k the two are equal.
HighEdges == {
  9, 13, 18, 26, 36, 43, 51, 52, 59, 71, 72, 86, 87, 102, 103, 104, 118,
   119, 141, 142, 143, 144, 172, 173, 174, 175, 204, 205, 206, 207, 208,
   235, 236, 237, 238, 239, 282, 283, 284, 285, 286, 287, 288, 344, 345,
   346, 347, 348, 349, 350, 351, 407, 408, 409, 410, 411, 412, 413, 414,
   415, 416, 469, 470, 471, 472, 473, 474, 475, 476, 477, 478, 479, 563,
   564, 565, 566, 567, 568, 569, 570, 571, 572, 573, 574, 575, 576, 688,
   689, 690, 691, 692, 693, 694, 695, 696, 697, 698, 699, 700, 701, 702,
   703, 813, 814, 815, 816, 817, 818, 819, 820, 821, 822, 823, 824, 825,
   826, 827, 828, 829, 830, 831, 832, 938, 939, 940, 941, 942, 943, 944,
   945, 946, 947, 948, 949, 950, 951, 952, 953, 954, 955, 956, 957, 958, 959}

\* The x > 0 halfway between two multiples of 0.001 for which the double
\* x*1000 falls short of the half (0.5015*1000 is 501.49999999999994); for
\* every other such x in [0, 1] the product is the half exactly.  The
\* products of -x and 1000 mirror them.
ShortTies == {50050, 50150, 50250, 50350, 50450, 50550, 50650, 50750, 50850,
              50950, 51050, 51150}

\* The pairs of a threshold of Thresholds and an n in 1..64 for which the
\* double threshold*n is above the exact product, which is an integer
\* (0.28*25 is 7.000000000000001).  For every other pair no integer lies
\* between the two.
ProductAbove == {<< <<7, 25>>, 25 >>, << <<7, 25>>, 50 >>}

(* ---- input domains ------------------------------------------------------ *)

\* Cosine similarities of a query to the background: -0.5, 0.0005, 0.009 (bin
\* edge 9, whose double lies one ulp above), 0.999 (the last bin edge).
BgSims == {-50000, 50, 900, 99900}

\* threshold, as numerator and denominator: 0.28, 0.5, 0.95 (the default),
\* 1.0
Thresholds == {<<7, 25>>, <<1, 2>>, <<19, 20>>, <<1, 1>>}

\* Lengths of the first run of the large background.
RunLengths == {7, 18}

\* Cosine similarities of a query to a candidate: 0.5015 (its product with
\* 1000 falls short of the half), 0.7994, 0.7995, 0.8205
CandSims == {50150, 79940, 79950, 82050}

\* Cutoffs handed to similar_matches: 0.8, and the bin edge 820*0.001 =
\* 0.8200000000000001 as similarity_cutoff returns it
CutoffValues == {80000, 82001}

\* Embedding widths F of the background and candidate matrices, and of the
\* query matrix.
Widths == {128, 256}
QueryWidths == {128}

\* The 0-based array holding the entries of the sequence s.
ZeroBased(s) == [k \in 0..(Len(s) - 1) |-> s[k + 1]]

Range0(n) == 0..(n - 1)

\* The greatest element of a non-empty set S of integers within lo..hi, found
\* by bisection.
RECURSIVE max_between(_, _, _)
max_between(S, lo, hi) ==
  IF lo >= hi THEN lo
  ELSE LET mid == (lo + hi) \div 2
       IN IF \E x \in S : x > mid
          THEN max_between(S, mid + 1, hi)
          ELSE max_between(S, lo, mid)

(* ---- features_from_image ------------------------------------------------ *)

\* np.array([]): one-dimensional, shape (0,)
EmptyArray == [ndim |-> 1, rows |-> 0, width |-> 0]

\* The shape of the array features_from_image returns for n images and an
\* extractor of width F.
features_from_image(n, F) ==
  IF n = 0 THEN EmptyArray ELSE [ndim |-> 2, rows |-> n, width |-> F]

\* len(a)
len(a) == a.rows

(* ---- sklearn's cosine_similarity ---------------------------------------- *)

\* cosine_similarity(X, Y) validates its arguments and raises ValueError
\* unless both are two-dimensional, non-empty and of equal width.
cosine_accepts(X, Y) ==
  /\ X.ndim = 2 /\ Y.ndim = 2
  /\ X.rows >= 1 /\ Y.rows >= 1
  /\ X.width = Y.width

\* The matrices cosine_similarity can return for n x m rows: one value of
\* Sims per pair.
cosine_outcomes(n, m, Sims) == [Range0(n) -> [Range0(m) -> Sims]]

\* The matrices cosine_similarity can return for one query and a background
\* of m embeddings, the first r equal to one another and so the others.
two_run_outcomes(m, Sims) ==
  {[i \in {0} |-> [j \in Range0(m) |-> IF j < r THEN u ELSE v]] :
     r \in RunLengths, u \in Sims, v \in Sims}

(* ---- similarity_cutoff -------------------------------------------------- *)

\* The double i*0.001
times_step(i) == i * BinWidth + (IF i \in HighEdges THEN 1 ELSE 0)

\* np.arange(0, stop, 0.001): entry i is the double i*0.001
arange(start, stop, step) ==
  [i \in Range0(((stop - start) + step - 1) \div step) |-> start + times_step(i)]

\* Mutant of bin_edges: the 1001 edges of 1000 bins reaching 1.0.
bin_edges_to_one == arange(0, One + BinWidth, BinWidth)

\* bins=np.arange(0,1,0.001): the bin edges
bin_edges == arange(0, One, BinWidth)

\* Number of entries of a 0-based array.
size(a) == Cardinality(DOMAIN a)

\* The number of the ascending edges that are <= x, given that those before
\* lo are and those from hi on are not.
RECURSIVE edges_at_most(_, _, _, _)
edges_at_most(edges, x, lo, hi) ==
  IF lo >= hi THEN lo
  ELSE LET mid == (lo + hi) \div 2
       IN IF edges[mid] <= x
          THEN edges_at_most(edges, x, mid + 1, hi)
          ELSE edges_at_most(edges, x, lo, mid)

\* The bin np.histogram counts x in: bin k takes edges[k] <= x < edges[k+1],
\* the last bin also x = edges[-1]; -1 when x lies outside the edges.
bin_of(x, edges) ==
  LET nb == size(edges) - 1
      c == edges_at_most(edges, x, 0, nb + 1)
  IN IF c = 0 THEN -1
     ELSE IF c <= nb THEN c - 1
     ELSE IF x = edges[nb] THEN nb - 1 ELSE -1

\* np.cumsum(np.histogram(a, bins=edges)[0]): entry k counts the values of a
\* in the bins 0..k.
cumulative_histogram(a, edges) ==
  LET placed == {<<j, bin_of(a[j], edges)>> : j \in DOMAIN a}
  IN [k \in Range0(size(edges) - 1) |->
        Cardinality({p \in placed : p[2] # -1 /\ p[2] <= k})]

\* Mutant of where_below: the fraction 1 - threshold instead of threshold.
where_below_complement(cum, threshold, n) ==
  {k \in DOMAIN cum :
     cum[k] * threshold[2] < (threshold[2] - threshold[1]) * n}

\* c < threshold*n, the product being the double: where it lies above the
\* exact product, a count equal to the exact product is below it.
below_product(c, threshold, n) ==
  \/ c * threshold[2] < threshold[1] * n
  \/ c * threshold[2] = threshold[1] * n /\ <<threshold, n>> \in ProductAbove

\* np.where(cum < threshold*n): the indices, as a set
where_below(cum, threshold, n) ==
  {k \in DOMAIN cum : below_product(cum[k], threshold, n)}

\* np.where(np.cumsum(hist) < threshold*len(cs1)) of one row of cs
selected_bins(cs1, threshold) ==
  where_below(cumulative_histogram(cs1, bin_edges), threshold, size(cs1))

\* bins[...][-1]: the last selected edge; indexing raises IndexError when
\* nothing is selected.
last_edge(sel) == bin_edges[max_between(sel, 0, size(bin_edges) - 1)]

\* The loop over the rows of cs from row i on, acc holding the cutoffs
\* appended so far.
RECURSIVE cutoff_loop(_, _, _, _)
cutoff_loop(cs, threshold, i, acc) ==
  IF i = size(cs)
  THEN [status |-> "ok", cutoff_list |-> ZeroBased(acc)]
  ELSE LET sel == selected_bins(cs[i], threshold)
       IN IF sel = {}
          THEN [status |-> "IndexError"]
          ELSE cutoff_loop(cs, threshold, i + 1, Append(acc, last_edge(sel)))

similarity_cutoff(feat_input, features, threshold, cs) ==
  IF ~cosine_accepts(feat_input, features)
  THEN [status |-> "ValueError"]
  ELSE cutoff_loop(cs, threshold, 0, <<>>)

(* ---- similar_matches ----------------------------------------------------- *)

ShapeMismatch == "matrices should have same columns"
CardinalityMismatch == "there should be one similarity cutoff for each input logo"

\* Mutant of similar_matches_guard: the assertions before the empty check.
guard_asserts_first(feat_input, features_cand, cutoff_list) ==
  IF feat_input.ndim < 2 \/ features_cand.ndim < 2
  THEN [status |-> "IndexError"]
  ELSE IF feat_input.width # features_cand.width
  THEN [status |-> "AssertionError", msg |-> ShapeMismatch]
  ELSE IF size(cutoff_list) # len(feat_input)
  THEN [status |-> "AssertionError", msg |-> CardinalityMismatch]
  ELSE IF len(features_cand) = 0 THEN [status |-> "empty"]
  ELSE [status |-> "pass"]

\* What happens before cosine_similarity is called: "empty" for the early
\* return, the exception raised, or "pass".  feat_input.shape[1] raises
\* IndexError on a one-dimensional array.
similar_matches_guard(feat_input, features_cand, cutoff_list) ==
  IF len(features_cand) = 0 THEN [status |-> "empty"]
  ELSE IF feat_input.ndim < 2 \/ features_cand.ndim < 2
  THEN [status |-> "IndexError"]
  ELSE IF feat_input.width # features_cand.width
  THEN [status |-> "AssertionError", msg |-> ShapeMismatch]
  ELSE IF size(cutoff_list) # len(feat_input)
  THEN [status |-> "AssertionError", msg |-> CardinalityMismatch]
  ELSE [status |-> "pass"]

\* np.round(x, 3) = rint(x*1000)/1000 of the double nearest to a number of
\* four decimals: the nearest multiple of 0.001; at a half, the even multiple
\* when the double x*1000 is the half exactly, and the multiple nearer to 0
\* when it falls short of it.
round3(x) ==
  LET q == x \div RoundUnit
      r == x % RoundUnit
      short == (IF x < 0 THEN -x ELSE x) \in ShortTies
  IN IF 2 * r < RoundUnit THEN q * RoundUnit
     ELSE IF 2 * r > RoundUnit THEN (q + 1) * RoundUnit
     ELSE IF short THEN (IF x > 0 THEN q * RoundUnit ELSE (q + 1) * RoundUnit)
     ELSE IF q % 2 = 0 THEN q * RoundUnit ELSE (q + 1) * RoundUnit

\* The elements of a finite set of integers as an ascending 0-based array.
RECURSIVE ascending_seq(_)
ascending_seq(S) ==
  IF S = {} THEN <<>>
  ELSE LET m == CHOOSE x \in S : \A y \in S : x <= y
       IN <<m>> \o ascending_seq(S \ {m})

\* Mutant of where_at_least: the strict comparison row > cutoff.
where_above(row, cutoff) ==
  [z \in {0} |-> ZeroBased(ascending_seq({c \in DOMAIN row : row[c] > cutoff}))]

\* np.where(row >= cutoff): a 1-tuple holding the array of the indices
where_at_least(row, cutoff) ==
  [z \in {0} |-> ZeroBased(ascending_seq({c \in DOMAIN row : row[c] >= cutoff}))]

similar_matches(feat_input, features_cand, cutoff_list, cs) ==
  LET guard == similar_matches_guard(feat_input, features_cand, cutoff_list)
  IN IF guard.status = "empty"
     THEN [status |-> "ok", matches |-> <<>>, cos_sim |-> <<>>]
     ELSE IF guard.status # "pass" THEN guard
     ELSE IF ~cosine_accepts(feat_input, features_cand)
     THEN [status |-> "ValueError"]
     ELSE LET cos_sim == [i \in DOMAIN cs |-> [c \in DOMAIN cs[i] |-> round3(cs[i][c])]]
          IN [status |-> "ok",
              matches |-> [i \in Range0(len(feat_input)) |->
                             where_at_least(cos_sim[i], cutoff_list[i])],
              cos_sim |-> cos_sim]

(* ---- draw_matches -------------------------------------------------------- *)

\* The detector's box list for n candidates: box c belongs to embedding row c.
boxes_of(n) == [c \in Range0(n) |-> <<"box", c>>]

\* The labels of n inputs.
labels_of(n) == [i \in Range0(n) |-> <<"label", i>>]

\* utils.bbox_colors(n): one RGB colour per input.
bbox_colors(n) == [i \in Range0(n) |-> <<i, n, 255>>]

\* np.array(colors)[:,::-1]: every colour reversed, RGB to BGR.  The array of
\* no colours has one dimension, and indexing it with two raises IndexError.
reversed_columns(colors) ==
  IF size(colors) = 0
  THEN [status |-> "IndexError"]
  ELSE [status |-> "ok",
        colors |-> [i \in DOMAIN colors |->
                      <<colors[i][3], colors[i][2], colors[i][1]>>]]

\* Mutant of collect_boxes: the box at the position in the index array
\* instead of the box the index names.
collect_by_position(prediction, arr) == [k \in DOMAIN arr |-> prediction[k]]

\* The inner loop: prediction[match] for every match of the index array.
collect_boxes(prediction, arr) == [k \in DOMAIN arr |-> prediction[arr[k]]]

\* Whether the loops index matches and prediction within their bounds.
lookups_in_range(inputs, prediction, matches) ==
  \A i \in DOMAIN inputs :
    /\ i \in DOMAIN matches
    /\ \A k \in DOMAIN matches[i][0] : matches[i][0][k] \in DOMAIN prediction

\* The value returned and the call made to draw_annotated_box, if any.
draw_matches(img_test, inputs, prediction, matches) ==
  IF size(prediction) = 0
  THEN [ret |-> [status |-> "ok", image |-> img_test],
        collab |-> [called |-> FALSE]]
  ELSE LET colors == reversed_columns(bbox_colors(size(inputs)))
       IN IF colors.status # "ok"
          THEN [ret |-> [status |-> colors.status],
                collab |-> [called |-> FALSE]]
          ELSE IF ~lookups_in_range(inputs, prediction, matches)
          THEN [ret |-> [status |-> "IndexError"],
                collab |-> [called |-> FALSE]]
          ELSE [ret |-> [status |-> "ok",
                         image |-> <<"annotated", img_test>>],
                collab |-> [called |-> TRUE,
                            image |-> img_test,
                            boxes |-> [i \in DOMAIN inputs |->
                                         collect_boxes(prediction,
                                                       matches[i][0])],
                            labels |-> inputs,
                            colors |-> colors.colors]]

(* ---- the calls ----------------------------------------------------------- *)

NoCall == [fn |-> "none"]
NoRet == [status |-> "none"]
NoCollab == [called |-> FALSE]

Init ==
  /\ pc = "idle"
  /\ call = NoCall
  /\ ret = NoRet
  /\ collab = NoCollab

CallSimilarityCutoff ==
  /\ pc = "idle"
  /\ \E nq \in 0..MaxBgCells, nb \in 0..MaxBgCells \cup {LargeBackground},
        wq \in QueryWidths, wb \in Widths, t \in Thresholds :
       LET feat_input == features_from_image(nq, wq)
           features == features_from_image(nb, wb)
       IN /\ nq * nb <= MaxBgCells \/ (nq = 1 /\ nb = LargeBackground)
          /\ \E cs \in IF ~cosine_accepts(feat_input, features) THEN {<<>>}
                       ELSE IF nb = LargeBackground
                       THEN two_run_outcomes(nb, BgSims)
                       ELSE cosine_outcomes(nq, nb, BgSims) :
               /\ call' = [fn |-> "similarity_cutoff", feat_input |-> feat_input,
                           features |-> features, threshold |-> t, cs |-> cs]
               /\ ret' = similarity_cutoff(feat_input, features, t, cs)
  /\ pc' = "returned"
  /\ UNCHANGED collab

CallSimilarMatches ==
  /\ pc = "idle"
  /\ \E nq \in 0..MaxCandCells, nc \in 0..MaxCandCells, wq \in QueryWidths,
        wc \in Widths, n \in 0..MaxCandCells :
       \E cutoff_list \in [Range0(n) -> CutoffValues] :
         LET feat_input == features_from_image(nq, wq)
             features_cand == features_from_image(nc, wc)
             reached == similar_matches_guard(feat_input, features_cand,
                                              cutoff_list).status = "pass"
                        /\ cosine_accepts(feat_input, features_cand)
         IN /\ nq * nc <= MaxCandCells
            /\ \E cs \in IF reached THEN cosine_outcomes(nq, nc, CandSims)
                         ELSE {<<>>} :
                 /\ call' = [fn |-> "similar_matches", feat_input |-> feat_input,
                             features_cand |-> features_cand,
                             cutoff_list |-> cutoff_list, cs |-> cs]
                 /\ ret' = similar_matches(feat_input, features_cand,
                                           cutoff_list, cs)
  /\ pc' = "returned"
  /\ UNCHANGED collab

\* draw_matches on the matches a call of similar_matches has just returned.
CallDrawMatches ==
  /\ pc = "returned"
  /\ call.fn = "similar_matches"
  /\ ret.status = "ok"
  /\ \E np \in 0..MaxCandCells, ni \in 0..MaxCandCells :
       LET out == draw_matches("img", labels_of(ni), boxes_of(np), ret.matches)
       IN /\ call' = [fn |-> "draw_matches", img_test |-> "img",
                      inputs |-> labels_of(ni), prediction |-> boxes_of(np),
                      matches |-> ret.matches,
                      n_input |-> len(call.feat_input),
                      n_candidates |-> len(call.features_cand)]
          /\ ret' = out.ret
          /\ collab' = out.collab
  /\ pc' = "returned"

Return ==
  /\ pc = "returned"
  /\ pc' = "idle"
  /\ call' = NoCall
  /\ ret' = NoRet
  /\ collab' = NoCollab

Next ==
  \/ CallSimilarityCutoff
  \/ CallSimilarMatches
  \/ CallDrawMatches
  \/ Return

Spec == Init /\ [][Next]_vars

\* Calls of similarity_cutoff alone.
NextCutoff ==
  \/ CallSimilarityCutoff
  \/ Return

SpecCutoff == Init /\ [][NextCutoff]_vars

\* Calls of similar_matches, each followed or not by draw_matches.
NextMatches ==
  \/ CallSimilarMatches
  \/ CallDrawMatches
  \/ Return

SpecMatches == Init /\ [][NextMatches]_vars

(* ---- properties ----------------------------------------------------------- *)

AfterCutoff == pc = "returned" /\ call.fn = "similarity_cutoff"
AfterMatches == pc = "returned" /\ call.fn = "similar_matches"
AfterDraw == pc = "returned" /\ call.fn = "draw_matches"

Abs(x) == IF x < 0 THEN -x ELSE x

\* The number of four decimals a code is nearest to, as a code.
Decimal(x) == x - (x % 10)

\* r is x rounded to 3 decimals as np.round does: a multiple of 0.001 nearest
\* to x; when x lies halfway between two, the even multiple, or the one nearer
\* to 0 for the x whose product with 1000 falls short of the half.
IsRounded3(x, r) ==
  /\ r % RoundUnit = 0
  /\ 2 * Abs(r - x) <= RoundUnit
  /\ 2 * Abs(r - x) = RoundUnit
       => IF Abs(x) \in ShortTies THEN Abs(r) < Abs(x)
          ELSE (r \div RoundUnit) % 2 = 0

\* t1 <= t2, for thresholds given as fractions
ThresholdLeq(t1, t2) == t1[1] * t2[2] <= t2[1] * t1[2]

\* C1: with at least one query, at least one candidate, equal widths and one
\* cutoff per query, similar_matches returns; the returned similarity matrix
\* holds the cosine similarities rounded to 3 decimals, and the match set of
\* query q lists, in ascending order without repetition, exactly the
\* candidates whose rounded similarity is >= cutoff[q], as doubles.
C1_MatchesAreRoundedAtLeastCutoff ==
  (/\ AfterMatches
   /\ len(call.feat_input) >= 1 /\ len(call.features_cand) >= 1
   /\ call.feat_input.width = call.features_cand.width
   /\ size(call.cutoff_list) = len(call.feat_input))
  => /\ ret.status = "ok"
     /\ \A q \in Range0(len(call.feat_input)) :
          LET cand == Range0(len(call.features_cand))
              arr == ret.matches[q][0]
          IN /\ DOMAIN ret.cos_sim[q] = cand
             /\ \A c \in cand : IsRounded3(call.cs[q][c], ret.cos_sim[q][c])
             /\ {arr[k] : k \in DOMAIN arr}
                  = {c \in cand : ret.cos_sim[q][c] >= call.cutoff_list[q]}
             /\ \A k, l \in DOMAIN arr : k < l => arr[k] < arr[l]

\* A raw 0.7995 against the cutoff 0.800 is a match, beside a raw 0.7994 that
\* is none.
C1_Witness ==
  /\ AfterMatches /\ ret.status = "ok"
  /\ \E q \in DOMAIN call.cs : \E c, d \in DOMAIN call.cs[q] :
       LET arr == ret.matches[q][0]
       IN /\ call.cutoff_list[q] = 80000
          /\ call.cs[q][c] = 79950 /\ call.cs[q][d] = 79940
          /\ c \in {arr[k] : k \in DOMAIN arr}
          /\ d \notin {arr[k] : k \in DOMAIN arr}

\* The number of values of the row lying in [lo, hi), or in [lo, hi] when
\* closed.
CountIn(row, lo, hi, closed) ==
  Cardinality({j \in DOMAIN row :
                 lo <= row[j] /\ (row[j] < hi \/ (closed /\ row[j] = hi))})

\* e is the greatest element of S
IsGreatest(e, S) == e \in S /\ \A x \in S : x <= e

\* The left edges k/1000 of the 1000 half-open bins over [0, 1) whose
\* cumulative count, bin included, is strictly below threshold x B.
DecimalEdgesBelow(row, threshold) ==
  {e \in {k * BinWidth : k \in 0..999} :
     CountIn(row, 0, e + BinWidth, FALSE) * threshold[2]
       < threshold[1] * size(row)}

\* C2 as claimed: every returned cutoff is the left edge of the highest of
\* 1000 half-open bins over [0, 1) whose cumulative count is < threshold x B.
C2_ThousandBins ==
  (AfterCutoff /\ ret.status = "ok")
  => \A i \in DOMAIN call.cs :
       IsGreatest(Decimal(ret.cutoff_list[i]),
                  DecimalEdgesBelow(call.cs[i], call.threshold))

\* Edge k of the histogram: the double k*0.001.
Edge(k) == IF k \in HighEdges THEN k * BinWidth + 1 ELSE k * BinWidth

\* The left edges of the 999 bins between the edges 0..999, the last bin
\* closed on the right, whose cumulative count, bin included, is strictly
\* below the double threshold*B.
DoubleEdgesBelow(row, threshold) ==
  LET B == size(row)
      above == <<threshold, B>> \in ProductAbove
      below(c) == \/ c * threshold[2] < threshold[1] * B
                  \/ above /\ c * threshold[2] = threshold[1] * B
      ks == {k \in 0..998 : below(CountIn(row, 0, Edge(k + 1), k = 998))}
  IN {Edge(k) : k \in ks}

\* C2 amended: the histogram has 999 bins between the 1000 edges k*0.001
\* computed in doubles, over [0, 0.999], the last one closed on the right,
\* and values outside are ignored; the call returns exactly when every query
\* has a bin whose cumulative count is < the double threshold*B, and then
\* each cutoff is the left edge of the highest such bin.
C2_NineNineNineBins ==
  (AfterCutoff /\ cosine_accepts(call.feat_input, call.features))
  => LET below == {<<i, DoubleEdgesBelow(call.cs[i], call.threshold)>> :
                     i \in DOMAIN call.cs}
     IN /\ ret.status = "ok" <=> \A p \in below : p[2] # {}
        /\ ret.status = "ok"
             => \A p \in below : IsGreatest(ret.cutoff_list[p[1]], p[2])

\* Threshold 0.28 and a background of 7 similarities 0.0005 and 18
\* similarities 0.009: the count 7 is below the double 0.28*25, and 0.009 is
\* below the edge 9*0.001, so that the cutoff is the edge 0.007.
C2_Witness ==
  /\ AfterCutoff /\ ret.status = "ok"
  /\ call.threshold = <<7, 25>>
  /\ \E i \in DOMAIN call.cs :
       /\ ret.cutoff_list[i] = 7 * BinWidth
       /\ CountIn(call.cs[i], 50, 50, TRUE) = 7
       /\ CountIn(call.cs[i], 900, 900, TRUE) = 18

\* The empirical threshold-quantile of a row: its smallest value with at least
\* a fraction threshold of the row at or below it.
Quantile(row, threshold) ==
  LET atOrBelow(v) == Cardinality({j \in DOMAIN row : row[j] <= v})
      enough == {row[j] : j \in DOMAIN row} \cap
                {v \in BgSims : atOrBelow(v) * threshold[2]
                                  >= threshold[1] * size(row)}
  IN CHOOSE v \in enough : \A w \in enough : v <= w

\* C3 as claimed: every returned cutoff is within one bin width of the
\* empirical threshold-quantile of the query's background similarities.
C3_CutoffNearQuantile ==
  (AfterCutoff /\ ret.status = "ok")
  => \A i \in DOMAIN call.cs :
       Abs(Decimal(ret.cutoff_list[i])
             - Quantile(call.cs[i], call.threshold)) <= BinWidth

\* C4 as claimed: with at least one query, a non-empty background of the same
\* width and a threshold in (0, 1], similarity_cutoff returns one cutoff per
\* query, each in [0, 1).
C4_AlwaysReturnsCutoffs ==
  (/\ AfterCutoff
   /\ len(call.feat_input) >= 1 /\ len(call.features) >= 1
   /\ call.feat_input.width = call.features.width)
  => /\ ret.status = "ok"
     /\ DOMAIN ret.cutoff_list = Range0(len(call.feat_input))
     /\ \A i \in DOMAIN ret.cutoff_list :
          0 <= ret.cutoff_list[i] /\ ret.cutoff_list[i] < One

\* The result of similarity_cutoff on the arguments of the call just made,
\* with threshold t instead.
WithThreshold(t) ==
  similarity_cutoff(call.feat_input, call.features, t, call.cs)

\* C5: for the same query and background, the cutoffs returned with a
\* threshold are >= those returned with any smaller threshold.
C5_CutoffMonotone ==
  (AfterCutoff /\ ret.status = "ok")
  => \A t1 \in Thresholds :
       ThresholdLeq(t1, call.threshold)
       => LET r1 == WithThreshold(t1)
          IN r1.status = "ok"
             => \A i \in DOMAIN ret.cutoff_list :
                  r1.cutoff_list[i] <= ret.cutoff_list[i]

\* A smaller threshold that returns a strictly smaller cutoff.
C5_Witness ==
  /\ AfterCutoff /\ ret.status = "ok"
  /\ \E t1 \in Thresholds :
       /\ ThresholdLeq(t1, call.threshold)
       /\ LET r1 == WithThreshold(t1)
          IN /\ r1.status = "ok"
             /\ \E i \in DOMAIN ret.cutoff_list :
                  r1.cutoff_list[i] < ret.cutoff_list[i]

\* C6: with an empty candidate matrix similar_matches returns an empty match
\* result and an empty similarity matrix, whatever the query and the cutoffs.
C6_EmptyCandidates ==
  (AfterMatches /\ len(call.features_cand) = 0)
  => ret = [status |-> "ok", matches |-> <<>>, cos_sim |-> <<>>]

\* Empty candidates with a query whose width differs and too few cutoffs.
C6_Witness ==
  /\ AfterMatches /\ len(call.features_cand) = 0
  /\ len(call.feat_input) >= 2
  /\ call.feat_input.width # call.features_cand.width
  /\ size(call.cutoff_list) < len(call.feat_input)
  /\ ret.status = "ok"

\* C7 as claimed: every successful call returns one match set per query and a
\* similarity matrix of shape Q x C, also when C = 0.
C7_ShapeQxC ==
  (AfterMatches /\ ret.status = "ok")
  => /\ DOMAIN ret.matches = Range0(len(call.feat_input))
     /\ DOMAIN ret.cos_sim = Range0(len(call.feat_input))
     /\ \A q \in Range0(len(call.feat_input)) :
          /\ DOMAIN ret.cos_sim[q] = Range0(len(call.features_cand))
          /\ len(call.features_cand) = 0 => size(ret.matches[q][0]) = 0

\* C8 as claimed: with a non-empty candidate matrix, a result is returned only
\* when the widths are equal and there is one cutoff per query; a width
\* mismatch raises the shape assertion, also when the cutoff count is wrong
\* too; a cutoff-count mismatch alone raises the cardinality assertion; and a
\* failing call returns no match set and no similarity matrix.
C8_PreconditionsChecked ==
  (AfterMatches /\ len(call.features_cand) >= 1)
  => /\ ret.status = "ok"
          => /\ call.feat_input.width = call.features_cand.width
             /\ size(call.cutoff_list) = len(call.feat_input)
     /\ call.feat_input.width # call.features_cand.width
          => ret = [status |-> "AssertionError", msg |-> ShapeMismatch]
     /\ (/\ call.feat_input.width = call.features_cand.width
         /\ size(call.cutoff_list) # len(call.feat_input))
          => ret = [status |-> "AssertionError", msg |-> CardinalityMismatch]
     /\ ret.status # "ok" => DOMAIN ret \cap {"matches", "cos_sim"} = {}

\* C9 as claimed: with the empty query array of features_from_image and a
\* non-empty background and candidate matrix, similarity_cutoff returns an
\* empty cutoff list and similar_matches, given it, returns.
C9_ZeroQueriesReturn ==
  /\ (AfterCutoff /\ call.feat_input = features_from_image(0, 128)
        /\ len(call.features) >= 1)
       => ret = [status |-> "ok", cutoff_list |-> <<>>]
  /\ (AfterMatches /\ call.feat_input = features_from_image(0, 128)
        /\ len(call.features_cand) >= 1 /\ call.cutoff_list = <<>>)
       => ret.status = "ok"

\* C10: given the matches of similar_matches, one box per candidate and one
\* label per query, draw_matches hands the drawing collaborator, for each
\* query i, the boxes of the candidates of match set i, each index within
\* [0, C), in ascending index order, with label i and colour i; and with no
\* box at all it returns the base image and calls nothing.
C10_DrawsMatchedBoxes ==
  AfterDraw
  => /\ (/\ call.n_candidates >= 1
         /\ size(call.prediction) = call.n_candidates
         /\ size(call.inputs) = call.n_input)
          => /\ ret.status = "ok"
             /\ collab.called
             /\ DOMAIN collab.boxes = Range0(call.n_input)
             /\ \A i \in Range0(call.n_input) :
                  LET arr == call.matches[i][0]
                      drawn == collab.boxes[i]
                  IN /\ DOMAIN drawn = DOMAIN arr
                     /\ \A k \in DOMAIN arr :
                          /\ arr[k] \in Range0(call.n_candidates)
                          /\ drawn[k] = <<"box", arr[k]>>
                     /\ \A k, l \in DOMAIN drawn :
                          k < l => drawn[k][2] < drawn[l][2]
                     /\ collab.labels[i] = <<"label", i>>
                     /\ collab.colors[i] = <<255, call.n_input, i>>
     /\ size(call.prediction) = 0
          => /\ ret = [status |-> "ok", image |-> call.img_test]
             /\ ~collab.called

\* A query matching the candidates 1 and 2 but not 0.
C10_Witness ==
  /\ AfterDraw /\ collab.called
  /\ size(call.prediction) = call.n_candidates
  /\ size(call.inputs) = call.n_input
  /\ \E i \in DOMAIN collab.boxes :
       collab.boxes[i] = ZeroBased(<< <<"box", 1>>, <<"box", 2>> >>)

====
